---------------------------- MODULE Spec2Model ----------------------------
(***************************************************************************)
(* A model of the VPC management API: the create handler                   *)
(* (cmd/vpc/create/main.go) and the get/list handler                       *)
(* (cmd/vpc/get/main.go), together with the two external services they     *)
(* call: the EC2 provider (CreateVpc, DescribeAvailabilityZones,           *)
(* CreateSubnet) and the DynamoDB table (PutItem, Query, Scan).            *)
(*                                                                         *)
(* Go strings are byte strings.  Resource fields (CIDR blocks, names,      *)
(* zones, identifiers) are TLA+ strings, "" being Go's empty string.  The  *)
(* x-api-key header value and the created_at timestamp are sequences of    *)
(* byte values, because the code measures and cuts the first by bytes and  *)
(* the table orders items by the bytes of the second.                      *)
(***************************************************************************)
EXTENDS Integers, Sequences, FiniteSets, TLC

\* ------------------------------------------------------------------ bounds

\* Most subnets in one create request.
MaxSubnets == 2
\* Most zones DescribeAvailabilityZones returns.
MaxZones == 2
\* Most create requests in one behaviour.
MaxCreates == 2
\* Most clock ticks (tenths of a second) that pass in one behaviour.
MaxTicks == 2
\* Most characters of an x-api-key header value.
MaxHeaderChars == 22

\* The length the creator identifier is cut to (create/main.go:86-87).
CreatorCap == 20

\* ----------------------------------------------------------- byte strings

RECURSIVE Repeat(_, _)
\* The sequence of n copies of x.
Repeat(x, n) == IF n <= 0 THEN << >> ELSE << x >> \o Repeat(x, n - 1)

RECURSIVE Flatten(_)
\* The concatenation of a sequence of sequences.
Flatten(ss) == IF ss = << >> THEN << >> ELSE Head(ss) \o Flatten(Tail(ss))

\* The UTF-8 encoding of one code point below 2048: one byte for ASCII, a
\* lead byte and a continuation byte otherwise.
Utf8(cp) == IF cp < 128 THEN << cp >> ELSE << 192 + (cp \div 64), 128 + (cp % 64) >>

\* The bytes of a text given as a sequence of code points.
Bytes(text) == Flatten([k \in 1 .. Len(text) |-> Utf8(text[k])])

\* A UTF-8 continuation byte: 10xxxxxx.
IsContinuation(b) == b >= 128 /\ b < 192

\* The number of characters a UTF-8 byte string holds.
CharCount(bs) == Cardinality({k \in 1 .. Len(bs) : ~IsContinuation(bs[k])})

\* The first n characters of a UTF-8 byte string (all of it when it holds
\* fewer): the longest prefix holding at most n characters that does not
\* end inside a character.
FirstChars(bs, n) ==
    LET ends == {k \in 0 .. Len(bs) :
                    /\ CharCount(SubSeq(bs, 1, k)) <= n
                    /\ (k < Len(bs) => ~IsContinuation(bs[k + 1]))}
        last == CHOOSE k \in ends : \A j \in ends : j <= k
    IN  SubSeq(bs, 1, last)

RECURSIVE BytesLess(_, _)
\* Byte-wise order of two byte strings, the order DynamoDB gives a string
\* sort key: a proper prefix sorts first.
BytesLess(a, b) ==
    IF b = << >> THEN FALSE
    ELSE IF a = << >> THEN TRUE
    ELSE IF Head(a) # Head(b) THEN Head(a) < Head(b)
    ELSE BytesLess(Tail(a), Tail(b))


\* ------------------------------------------------------------- timestamps

\* time.Now().UTC().Format(time.RFC3339Nano) of the instant t, counted in
\* tenths of a second: the two digits of the second, the fraction with its
\* trailing zeros removed (so no fraction at all on a whole second), and
\* "Z".  The date, hour and minute before the second have a fixed width and
\* are the same for every instant of the model, so they are left out.
FormatRFC3339Nano(t) ==
    LET sec  == t \div 10
        frac == t % 10
    IN  << 48 + (sec \div 10), 48 + (sec % 10) >>
        \o (IF frac = 0 THEN << >> ELSE << 46, 48 + frac >>)
        \o << 90 >>

\* --------------------------------------------------------- request bodies

\* A request body is a JSON document: one that does not parse, or an object
\* with some of the fields cidr_block, vpc_name and subnets.
Malformed == [wellFormed |-> FALSE]

JSONObject(o) == [wellFormed |-> TRUE, obj |-> o]

\* The value of field k of JSON object o, or zero (the Go zero value the
\* decoder leaves in the struct) when the object has no such field.
Field(o, k, zero) == IF k \in DOMAIN o THEN o[k] ELSE zero

\* Subnet (create/main.go:26-30) decoded from one element of "subnets".
DecodeSubnet(o) ==
    [CIDRBlock        |-> Field(o, "cidr_block", ""),
     Name             |-> Field(o, "name", ""),
     AvailabilityZone |-> Field(o, "availability_zone", "")]

\* json.Unmarshal([]byte(request.Body), &vpcRequest): an error for a body
\* that does not parse, else the CreateVPCRequest (create/main.go:20-24)
\* with absent fields left at their zero values.
Unmarshal(body) ==
    IF ~body.wellFormed
    THEN [err |-> TRUE]
    ELSE LET subs == Field(body.obj, "subnets", << >>)
         IN  [err |-> FALSE,
              req |-> [CIDRBlock |-> Field(body.obj, "cidr_block", ""),
                       VPCName   |-> Field(body.obj, "vpc_name", ""),
                       Subnets   |-> [k \in 1 .. Len(subs) |-> DecodeSubnet(subs[k])]]]

\* validateInput with its loop stopping after the first subnet.
validateInput_FirstSubnetOnly(req) ==
    /\ req.CIDRBlock # ""
    /\ req.VPCName # ""
    /\ Len(req.Subnets) # 0
    /\ req.Subnets[1].CIDRBlock # "" /\ req.Subnets[1].Name # ""

\* The check validateInput makes of one subnet.
SubnetValid(subnet) == subnet.CIDRBlock # "" /\ subnet.Name # ""

\* validateInput: TRUE when it returns nil.
validateInput(req) ==
    /\ req.CIDRBlock # ""
    /\ req.VPCName # ""
    /\ Len(req.Subnets) # 0
    /\ \A k \in 1 .. Len(req.Subnets) : SubnetValid(req.Subnets[k])

\* --------------------------------------------------------- caller identity

\* "api-user"
ApiUser == << 97, 112, 105, 45, 117, 115, 101, 114 >>

\* m[k] of a Go map[string]string: the empty string for a key not in m.
MapGet(m, k) == IF k \in DOMAIN m THEN m[k] ELSE << >>

\* The name the handler looks the caller's key up under.
ApiKeyHeader == "x-api-key"

\* The cut of create/main.go:86-88: by bytes.
Truncate(apiKey) ==
    IF Len(apiKey) > CreatorCap THEN SubSeq(apiKey, 1, CreatorCap) ELSE apiKey

\* create/main.go:81-88: the creator identifier of a request with these
\* headers.
CallerIdentity(headers) ==
    LET apiKey == MapGet(headers, ApiKeyHeader)
    IN  Truncate(IF apiKey = << >> THEN ApiUser ELSE apiKey)

\* -------------------------------------------------------------- responses

\* No response (yet).
NoResponse == [StatusCode |-> 0]

\* errorResponse(statusCode, message, details): the details, the text of
\* the underlying error, are left out.
errorResponse(statusCode, message) == [StatusCode |-> statusCode, Error |-> message]

\* successResponse(statusCode, body).
successResponse(statusCode, body) == [StatusCode |-> statusCode, Body |-> body]

\* json.Marshal of a SubnetResult (create/main.go:41-46, get/main.go:28-33).
SubnetResultJSON(r) ==
    [subnet_id         |-> r.SubnetId,
     cidr_block        |-> r.CIDRBlock,
     availability_zone |-> r.AvailabilityZone,
     name              |-> r.Name]

\* json.Marshal of the CreateVPCResponse the handler builds
\* (create/main.go:105-112).
CreateVPCResponse(id, req, subnetResults, at, by) ==
    [message    |-> "VPC created successfully",
     vpc_id     |-> id,
     vpc_cidr   |-> req.CIDRBlock,
     subnets    |-> [k \in 1 .. Len(subnetResults) |-> SubnetResultJSON(subnetResults[k])],
     created_at |-> at,
     created_by |-> by]

\* json.Marshal of a VPCResource (get/main.go:18-26).
VPCResourceJSON(vpc) ==
    [vpc_id     |-> vpc.VPCId,
     created_at |-> vpc.CreatedAt,
     created_by |-> vpc.CreatedBy,
     vpc_cidr   |-> vpc.VPCCidr,
     vpc_name   |-> vpc.VPCName,
     status     |-> vpc.Status,
     subnets    |-> [k \in 1 .. Len(vpc.Subnets) |-> SubnetResultJSON(vpc.Subnets[k])]]

\* json.Marshal of a ListVPCResponse (get/main.go:35-38).
ListVPCResponseJSON(vpcs, count) ==
    [vpcs  |-> [k \in 1 .. Len(vpcs) |-> VPCResourceJSON(vpcs[k])],
     count |-> count]

\* ------------------------------------------------------------ table items

\* DynamoDB attribute values: a string, a list, a map.
S(v) == [S |-> v]
L(v) == [L |-> v]
M(v) == [M |-> v]

IsS(av) == DOMAIN av = {"S"}
IsL(av) == DOMAIN av = {"L"}
IsM(av) == DOMAIN av = {"M"}

\* The map storeVPCMetadata builds of one subnet (create/main.go:224-231).
SubnetItem(r) ==
    M([subnet_id         |-> S(r.SubnetId),
       cidr_block        |-> S(r.CIDRBlock),
       availability_zone |-> S(r.AvailabilityZone),
       name              |-> S(r.Name)])

\* The item with the name of the network in vpc_cidr too.
MetadataItem_NameForCidr(id, req, subnetResults, at, by) ==
    [vpc_id     |-> S(id),
     created_at |-> S(at),
     created_by |-> S(by),
     vpc_cidr   |-> S(req.VPCName),
     vpc_name   |-> S(req.VPCName),
     status     |-> S("created"),
     subnets    |-> L([k \in 1 .. Len(subnetResults) |-> SubnetItem(subnetResults[k])])]

\* The item storeVPCMetadata builds (create/main.go:222-242).
MetadataItem(id, req, subnetResults, at, by) ==
    [vpc_id     |-> S(id),
     created_at |-> S(at),
     created_by |-> S(by),
     vpc_cidr   |-> S(req.CIDRBlock),
     vpc_name   |-> S(req.VPCName),
     status     |-> S("created"),
     subnets    |-> L([k \in 1 .. Len(subnetResults) |-> SubnetItem(subnetResults[k])])]

\* attributevalue.UnmarshalMap decodes attribute k of map m into a string
\* field: possible when the attribute is absent (the field stays zero) or a
\* string.
StringDecodes(m, k) == k \in DOMAIN m => IsS(m[k])

\* The string field decoded from attribute k of m; zero is the field's zero
\* value, "" for a string kept as a TLA+ string and << >> for one kept as
\* bytes.
StringOf(m, k, zero) == IF k \in DOMAIN m THEN m[k].S ELSE zero

SubnetAttributes == {"subnet_id", "cidr_block", "availability_zone", "name"}

\* Whether one element of the subnets list decodes into a SubnetResult.
SubnetDecodes(av) == IsM(av) /\ \A k \in SubnetAttributes : StringDecodes(av.M, k)

\* Whether attributevalue.UnmarshalMap(item, &vpc) returns nil.
ItemDecodes(item) ==
    /\ \A k \in {"vpc_id", "created_at", "created_by", "vpc_cidr", "vpc_name", "status"} :
            StringDecodes(item, k)
    /\ "subnets" \in DOMAIN item =>
            /\ IsL(item.subnets)
            /\ \A k \in 1 .. Len(item.subnets.L) : SubnetDecodes(item.subnets.L[k])

\* The SubnetResult decoded from one element of the subnets list.
SubnetOfItem(av) ==
    [SubnetId         |-> StringOf(av.M, "subnet_id", ""),
     CIDRBlock        |-> StringOf(av.M, "cidr_block", ""),
     AvailabilityZone |-> StringOf(av.M, "availability_zone", ""),
     Name             |-> StringOf(av.M, "name", "")]

\* The VPCResource attributevalue.UnmarshalMap decodes from an item that
\* decodes.
VPCResourceOf(item) ==
    [VPCId     |-> StringOf(item, "vpc_id", ""),
     CreatedAt |-> StringOf(item, "created_at", << >>),
     CreatedBy |-> StringOf(item, "created_by", << >>),
     VPCCidr   |-> StringOf(item, "vpc_cidr", ""),
     VPCName   |-> StringOf(item, "vpc_name", ""),
     Status    |-> StringOf(item, "status", ""),
     Subnets   |-> IF "subnets" \in DOMAIN item
                   THEN [k \in 1 .. Len(item.subnets.L) |-> SubnetOfItem(item.subnets.L[k])]
                   ELSE << >>]

\* attributevalue.UnmarshalMap(item, &vpc).
UnmarshalMap(item) ==
    IF ItemDecodes(item) THEN [err |-> FALSE, vpc |-> VPCResourceOf(item)] ELSE [err |-> TRUE]

\* ---------------------------------------------------------------- the table

\* The table's key: vpc_id the partition key, created_at the sort key.
SameKey(a, b) == a.vpc_id = b.vpc_id /\ a.created_at = b.created_at

\* The table after a PutItem that succeeded: the item replaces the one of
\* its key, if any.
PutItem(items, item) == {x \in items : ~SameKey(x, item)} \cup {item}

\* The items of partition id.
Partition(items, id) == {x \in items : x.vpc_id.S = id}

\* The Query with ScanIndexForward true: the least sort key.
Query_Forward(items, id) ==
    LET part == Partition(items, id)
    IN  IF part = {} THEN << >>
        ELSE << CHOOSE x \in part :
                   \A y \in part : y = x \/ BytesLess(x.created_at.S, y.created_at.S) >>

\* The Items of a Query with KeyConditionExpression vpc_id = :vpc_id,
\* ScanIndexForward false and Limit 1 that succeeded: the item of the
\* partition whose sort key is greatest, if the partition has any.
Query(items, id) ==
    LET part == Partition(items, id)
    IN  IF part = {} THEN << >>
        ELSE << CHOOSE x \in part :
                   \A y \in part : y = x \/ BytesLess(y.created_at.S, x.created_at.S) >>

RECURSIVE Perms(_)
\* The sequences that list every element of a set once.
Perms(set) ==
    IF set = {} THEN {<< >>}
    ELSE UNION {{<< x >> \o p : p \in Perms(set \ {x})} : x \in set}

\* The partition keys of the items.
PartitionKeys(items) == {x.vpc_id.S : x \in items}

RECURSIVE Ascending(_)
\* The items of one partition in ascending order of the sort key.
Ascending(part) ==
    IF part = {} THEN << >>
    ELSE LET least == CHOOSE x \in part :
                         \A y \in part : y = x \/ BytesLess(x.created_at.S, y.created_at.S)
         IN  << least >> \o Ascending(part \ {least})

\* The Items a Scan that succeeded may return: the items partition after
\* partition, the partitions in an order the table chooses (by a hash of the
\* partition key), each partition in ascending order of the sort key.
ScanResults(items) ==
    {Flatten([k \in 1 .. Len(order) |-> Ascending(Partition(items, order[k]))]) :
        order \in Perms(PartitionKeys(items))}


\* ------------------------------------------------------------------- state

VARIABLES
    \* The create handler's invocation.
    pc,            \* where it stands: "idle" (none in flight), "createVPC",
                   \* "createSubnets", "CreateSubnet", "storeVPCMetadata",
                   \* or "panic" (the invocation died of a run-time panic)
    request,       \* the request it was invoked with: Body and Headers
    vpcRequest,    \* the decoded body
    apiKey,        \* the creator identifier
    vpcId,         \* the identifier createVPC returned
    availableAZs,  \* the zone names createSubnets was given
    results,       \* createSubnets' results so far, then subnetResults
    createdAt,     \* the formatted time of create/main.go:100
    responses,     \* the responses the invocation has returned
    calls,         \* the provider and table calls the invocation has made
    \* The get/list handler's invocation, when it is the step just taken.
    getRequest,    \* its path parameters
    getCalls,      \* the table calls it made
    getResponse,   \* the response it returned
    \* The provider.
    vpcs,          \* the networks allocated
    subnets,       \* the subnets allocated
    \* The table.
    table,         \* its items
    \* The rest.
    now,           \* the clock, in tenths of a second
    nCreates,      \* the create requests received so far
    created        \* the create requests answered 201, each with its response

vars == << pc, request, vpcRequest, apiKey, vpcId, availableAZs, results,
           createdAt, responses, calls, getRequest, getCalls, getResponse,
           vpcs, subnets, table, now, nCreates, created >>

\* ------------------------------------------------------------------ inputs

\* The sequences over set of length at most n.
SeqsUpTo(set, n) == UNION {[1 .. k -> set] : k \in 0 .. n}

\* No headers, no path parameters: the empty map.
EmptyMap == << >>

\* The map with the one entry k: v.
OneEntry(k, v) == [x \in {k} |-> v]

ZoneNames == {"us-east-1a", "us-east-1b", "us-east-1c"}

\* The zone a request may ask for.
ZoneHint == "us-east-1b"

\* What DescribeAvailabilityZones may return: the names of the zones
\* available, none named twice.
ZoneLists ==
    {z \in SeqsUpTo(ZoneNames, MaxZones) :
        \A a, b \in 1 .. Len(z) : a # b => z[a] # z[b]}

\* The lists that Spec, SpecRead and SpecIdentity draw from: no zone, one,
\* two.
FewZoneLists == {<< >>, << "us-east-1a" >>, << "us-east-1a", "us-east-1b" >>}

\* The elements of "subnets" that pass validateInput.
ValidSubnetDocs ==
    {[cidr_block |-> "10.0.1.0/24", name |-> "a"],
     [cidr_block |-> "10.0.1.0/24", name |-> "a", availability_zone |-> ZoneHint],
     [cidr_block |-> "10.0.2.0/24", name |-> "b"],
     [cidr_block |-> "10.0.2.0/24", name |-> "b", availability_zone |-> ZoneHint]}

\* Elements that do not.
InvalidSubnetDocs ==
    {[cidr_block |-> "", name |-> "a"],
     [cidr_block |-> "10.0.1.0/24", name |-> ""],
     [name |-> "b"]}

\* The bodies of the create requests of SpecCreate.
CreateBodies ==
    {Malformed}
    \cup {JSONObject([cidr_block |-> c, vpc_name |-> n, subnets |-> ss]) :
            c \in {"", "10.0.0.0/16"}, n \in {"", "demo"},
            ss \in SeqsUpTo(ValidSubnetDocs \cup InvalidSubnetDocs, MaxSubnets)}
    \cup {JSONObject([cidr_block |-> "10.0.0.0/16", vpc_name |-> "demo"]),
          JSONObject([vpc_name |-> "demo", subnets |-> << [cidr_block |-> "10.0.1.0/24", name |-> "a"] >>]),
          JSONObject([cidr_block |-> "10.0.0.0/16", subnets |-> << [cidr_block |-> "10.0.1.0/24", name |-> "a"] >>])}

\* The body of the end-to-end scenario.
DemoBody ==
    JSONObject([cidr_block |-> "10.0.0.0/16", vpc_name |-> "demo",
                subnets |-> << [cidr_block |-> "10.0.1.0/24", name |-> "a"] >>])

\* The names a request may carry a header under: the caller's key in three
\* casings (header names are case-insensitive, and the gateway passes a
\* name on as the client wrote it), and another header.
HeaderNames == {"x-api-key", "X-API-Key", "X-Api-Key", "content-type"}

\* A header name in lower case.
ToLower(name) ==
    IF name \in {"x-api-key", "X-API-Key", "X-Api-Key"} THEN "x-api-key" ELSE name

\* The header values: every text of at most MaxHeaderChars characters that
\* is a run of "k" followed by a run of "e" with an acute accent (two bytes
\* in UTF-8).
HeaderValues ==
    {Bytes(Repeat(107, m) \o Repeat(233, n)) :
        m \in 0 .. MaxHeaderChars, n \in 0 .. MaxHeaderChars}

\* The headers of the create requests of SpecIdentity: none, the caller's
\* key under its lower-case name with every value, or a header under
\* another name with a short or a long value.
IdentityHeaders ==
    {EmptyMap}
    \cup {OneEntry("x-api-key", v) : v \in {w \in HeaderValues : CharCount(w) <= MaxHeaderChars}}
    \cup {OneEntry(name, Bytes(Repeat(107, m))) :
            name \in HeaderNames, m \in {1, CreatorCap + 1}}

\* The body of a request that fails validation.
NamelessBody == JSONObject([cidr_block |-> "10.0.0.0/16"])

\* The create requests of SpecIdentity: the scenario's body, and a body
\* that fails validation, with every header.
IdentityRequests ==
    {[Body |-> b, Headers |-> h] : b \in {DemoBody, NamelessBody}, h \in IdentityHeaders}

\* The create requests of SpecCreate: every body, without headers.
CreateRequests == {[Body |-> b, Headers |-> EmptyMap] : b \in CreateBodies}

\* The create requests of Spec and SpecRead: the scenario's, one of two
\* subnets with the caller's key, and one that fails validation.
Requests ==
    {[Body |-> DemoBody, Headers |-> EmptyMap],
     [Body |-> JSONObject([cidr_block |-> "10.0.0.0/16", vpc_name |-> "two",
                           subnets |-> << [cidr_block |-> "10.0.1.0/24", name |-> "a"],
                                          [cidr_block |-> "10.0.2.0/24", name |-> "b",
                                           availability_zone |-> ZoneHint] >>]),
      Headers |-> OneEntry("x-api-key", Bytes(<< 107 >>))],
     [Body |-> NamelessBody, Headers |-> EmptyMap]}

\* The clock when the behaviour starts.
StartTime == 20

\* The items the table may hold when the behaviour starts: two of network
\* vpc-a, written on a whole second and half a second later; and two of
\* vpc-b, an older one with the key and a name only, and a later one whose
\* subnets attribute is a string.
PreItems ==
    {MetadataItem("vpc-a", [CIDRBlock |-> "172.16.0.0/16", VPCName |-> "first"],
                  << [SubnetId |-> "subnet-a", CIDRBlock |-> "172.16.1.0/24",
                      AvailabilityZone |-> "us-east-1a", Name |-> "s"] >>,
                  FormatRFC3339Nano(10), ApiUser),
     MetadataItem("vpc-a", [CIDRBlock |-> "172.16.0.0/16", VPCName |-> "second"],
                  << >>, FormatRFC3339Nano(15), ApiUser),
     [vpc_id |-> S("vpc-b"), created_at |-> S(FormatRFC3339Nano(5)), vpc_name |-> S("partial")],
     [vpc_id |-> S("vpc-b"), created_at |-> S(FormatRFC3339Nano(12)), subnets |-> S("none")]}

\* The path parameters of the get requests: none, an empty vpc_id, or the
\* identifier of a network.
PathParameters ==
    {EmptyMap, [other |-> "x"]}
    \cup {[vpc_id |-> id] : id \in {"", "vpc-a", "vpc-b", "vpc-x"}
                                 \cup {"vpc-" \o ToString(k) : k \in 1 .. MaxCreates}}

\* Those of the get requests of Spec.
FewPathParameters == {EmptyMap, [vpc_id |-> "vpc-a"], [vpc_id |-> "vpc-1"], [vpc_id |-> "vpc-2"]}


\* ---------------------------------------------------------- initial states

ZeroRequest == [CIDRBlock |-> "", VPCName |-> "", Subnets |-> << >>]

\* No invocation yet, nothing allocated, and a table holding the items in
\* tables.
InitWith(tables) ==
    /\ pc = "idle"
    /\ request = [Body |-> Malformed, Headers |-> EmptyMap]
    /\ vpcRequest = ZeroRequest
    /\ apiKey = << >>
    /\ vpcId = ""
    /\ availableAZs = << >>
    /\ results = << >>
    /\ createdAt = << >>
    /\ responses = << >>
    /\ calls = << >>
    /\ getRequest = EmptyMap
    /\ getCalls = << >>
    /\ getResponse = NoResponse
    /\ vpcs = {}
    /\ subnets = {}
    /\ table \in tables
    /\ now = StartTime
    /\ nCreates = 0
    /\ created = {}

\* ------------------------------------------------------ the create handler

\* The handler has returned response: the invocation is over.
Return(response) ==
    /\ responses' = Append(responses, response)
    /\ pc' = "idle"

\* Any step of the create handler: the get/list response, if one was just
\* returned, is no longer the step just taken.
ForgetGet ==
    /\ getRequest' = EmptyMap
    /\ getCalls' = << >>
    /\ getResponse' = NoResponse

\* handler, create/main.go:71-88: decode the body, validate it, and work
\* out the creator identifier.
createHandler(body, headers) ==
    /\ pc \in {"idle", "panic"}
    /\ nCreates < MaxCreates
    /\ nCreates' = nCreates + 1
    /\ request' = [Body |-> body, Headers |-> headers]
    /\ vpcId' = ""
    /\ availableAZs' = << >>
    /\ results' = << >>
    /\ createdAt' = << >>
    /\ calls' = << >>
    /\ LET parsed == Unmarshal(body)
       IN  IF parsed.err
           THEN /\ vpcRequest' = ZeroRequest
                /\ apiKey' = << >>
                /\ responses' = << errorResponse(400, "Invalid JSON") >>
                /\ pc' = "idle"
           ELSE IF ~validateInput(parsed.req)
           THEN /\ vpcRequest' = parsed.req
                /\ apiKey' = << >>
                /\ responses' = << errorResponse(400, "Validation failed") >>
                /\ pc' = "idle"
           ELSE /\ vpcRequest' = parsed.req
                /\ apiKey' = CallerIdentity(headers)
                /\ responses' = << >>
                /\ pc' = "createVPC"
    /\ ForgetGet
    /\ UNCHANGED << vpcs, subnets, table, now, created >>

\* The identifier the provider gives the next network.
NewVpcId == "vpc-" \o ToString(Cardinality(vpcs) + 1)

\* The identifier the provider gives the next subnet.
NewSubnetId == "subnet-" \o ToString(Cardinality(subnets) + 1)

\* createVPC, create/main.go:138-160, and the handler's lines 90-93: the
\* CreateVpc call succeeds or fails.
createVPC ==
    /\ pc = "createVPC"
    /\ \E ok \in BOOLEAN :
        /\ calls' = Append(calls, [op |-> "CreateVpc", ok |-> ok])
        /\ IF ok
           THEN /\ vpcs' = vpcs \cup {[VpcId |-> NewVpcId,
                                       CidrBlock |-> vpcRequest.CIDRBlock,
                                       Name |-> vpcRequest.VPCName]}
                /\ vpcId' = NewVpcId
                /\ pc' = "createSubnets"
                /\ UNCHANGED responses
           ELSE /\ Return(errorResponse(500, "Failed to create VPC"))
                /\ UNCHANGED << vpcs, vpcId >>
    /\ ForgetGet
    /\ UNCHANGED << request, vpcRequest, apiKey, availableAZs, results, createdAt,
                    subnets, table, now, nCreates, created >>

\* createSubnets, create/main.go:163-177, and the handler's lines 96-98:
\* the DescribeAvailabilityZones call fails, or returns a list of zones.
DescribeAvailabilityZones(zoneLists) ==
    /\ pc = "createSubnets"
    /\ \E ok \in BOOLEAN :
       \E zones \in (IF ok THEN zoneLists ELSE {<< >>}) :
        /\ calls' = Append(calls, [op |-> "DescribeAvailabilityZones", ok |-> ok])
        /\ IF ok
           THEN /\ availableAZs' = zones
                /\ pc' = "CreateSubnet"
                /\ UNCHANGED responses
           ELSE /\ Return(errorResponse(500, "Failed to create subnets"))
                /\ UNCHANGED availableAZs
    /\ ForgetGet
    /\ UNCHANGED << request, vpcRequest, apiKey, vpcId, results, createdAt,
                    vpcs, subnets, table, now, nCreates, created >>

\* create/main.go:181-188: the zone of the subnet at index i (from 0), or a
\* run-time panic: availableAZs[0] of an empty list is out of range.
SelectZone(subnet, i, zones) ==
    IF subnet.AvailabilityZone # ""
    THEN [panic |-> FALSE, az |-> subnet.AvailabilityZone]
    ELSE IF i < Len(zones)
    THEN [panic |-> FALSE, az |-> zones[i + 1]]
    ELSE IF Len(zones) = 0
    THEN [panic |-> TRUE]
    ELSE [panic |-> FALSE, az |-> zones[1]]

\* The result with the fields of the request crossed.
SubnetResult_Crossed(id, subnet, az) ==
    [SubnetId         |-> id,
     CIDRBlock        |-> subnet.Name,
     AvailabilityZone |-> az,
     Name             |-> subnet.CIDRBlock]

\* create/main.go:210-215: the result of a subnet created.
SubnetResult(id, subnet, az) ==
    [SubnetId         |-> id,
     CIDRBlock        |-> subnet.CIDRBlock,
     AvailabilityZone |-> az,
     Name             |-> subnet.Name]

\* One pass of the loop of createSubnets, create/main.go:179-216, and the
\* handler's lines 96-98: choose the zone, call CreateSubnet, which succeeds
\* or fails, and append the result.  After the last subnet createSubnets
\* returns the results.
CreateSubnet ==
    /\ pc = "CreateSubnet"
    /\ LET i      == Len(results)
           subnet == vpcRequest.Subnets[i + 1]
           zone   == SelectZone(subnet, i, availableAZs)
       IN  IF zone.panic
           THEN /\ pc' = "panic"
                /\ UNCHANGED << results, responses, calls, subnets >>
           ELSE \E ok \in BOOLEAN :
                /\ calls' = Append(calls,
                                   [op |-> "CreateSubnet", ok |-> ok, index |-> i,
                                    VpcId |-> vpcId, CidrBlock |-> subnet.CIDRBlock,
                                    AvailabilityZone |-> zone.az, Name |-> subnet.Name,
                                    SubnetId |-> IF ok THEN NewSubnetId ELSE ""])
                /\ IF ok
                   THEN /\ subnets' = subnets \cup {[SubnetId |-> NewSubnetId,
                                                     VpcId |-> vpcId,
                                                     CidrBlock |-> subnet.CIDRBlock,
                                                     AvailabilityZone |-> zone.az,
                                                     Name |-> subnet.Name]}
                        /\ results' = Append(results, SubnetResult(NewSubnetId, subnet, zone.az))
                        /\ pc' = IF i + 1 = Len(vpcRequest.Subnets)
                                 THEN "storeVPCMetadata" ELSE "CreateSubnet"
                        /\ UNCHANGED responses
                   ELSE /\ results' = << >>
                        /\ Return(errorResponse(500, "Failed to create subnets"))
                        /\ UNCHANGED subnets
    /\ ForgetGet
    /\ UNCHANGED << request, vpcRequest, apiKey, vpcId, availableAZs, createdAt,
                    vpcs, table, now, nCreates, created >>

\* The item written though the call is reported to have failed.
TableAfterPut_Always(items, item, ok) == PutItem(items, item)

\* create/main.go:244-250: the table after the PutItem call of item, which
\* succeeded or failed.
TableAfterPut(items, item, ok) == IF ok THEN PutItem(items, item) ELSE items

\* The handler's lines 100-114 and storeVPCMetadata, create/main.go:221-253:
\* read the clock, build the item and put it, which succeeds or fails, and
\* return the response.
storeVPCMetadata ==
    /\ pc = "storeVPCMetadata"
    /\ \E t \in now .. StartTime + MaxTicks, ok \in BOOLEAN :
        LET at   == FormatRFC3339Nano(t)
            item == MetadataItem(vpcId, vpcRequest, results, at, apiKey)
            body == CreateVPCResponse(vpcId, vpcRequest, results, at, apiKey)
        IN  /\ now' = t
            /\ createdAt' = at
            /\ calls' = Append(calls, [op |-> "PutItem", ok |-> ok, item |-> item])
            /\ table' = TableAfterPut(table, item, ok)
            /\ IF ok
               THEN /\ Return(successResponse(201, body))
                    /\ created' = created \cup {[req |-> vpcRequest, body |-> body]}
               ELSE /\ Return(errorResponse(500, "Failed to store metadata"))
                    /\ UNCHANGED created
    /\ ForgetGet
    /\ UNCHANGED << request, vpcRequest, apiKey, vpcId, availableAZs, results,
                    vpcs, subnets, nCreates >>

\* ---------------------------------------------------- the get/list handler

\* request.PathParameters["vpc_id"]: the empty string when there is none.
PathParameter(params, k) == IF k \in DOMAIN params THEN params[k] ELSE ""

\* The response of getVPC, get/main.go:81-96, to a Query that failed, or
\* that returned items.
GetVPCResponse(ok, items) ==
    IF ~ok THEN errorResponse(500, "Failed to query DynamoDB")
    ELSE IF Len(items) = 0 THEN errorResponse(404, "VPC not found")
    ELSE IF UnmarshalMap(items[1]).err THEN errorResponse(500, "Failed to parse VPC data")
    ELSE successResponse(200, VPCResourceJSON(UnmarshalMap(items[1]).vpc))

\* getVPC, get/main.go:70-97: one Query, which succeeds or fails.
getVPC(id) ==
    \E ok \in BOOLEAN :
        /\ getCalls' = << [op |-> "Query", vpc_id |-> id, ok |-> ok] >>
        /\ getResponse' = GetVPCResponse(ok, IF ok THEN Query(table, id) ELSE << >>)

RECURSIVE DecodeAll(_)
\* The loop of listVPCs, get/main.go:109-117: the items that decode, in
\* their order.
DecodeAll(items) ==
    IF items = << >> THEN << >>
    ELSE (IF UnmarshalMap(Head(items)).err THEN << >> ELSE << UnmarshalMap(Head(items)).vpc >>)
         \o DecodeAll(Tail(items))

\* The response with the count of the items scanned.
ListVPCsResponse_CountScanned(ok, items) ==
    IF ~ok THEN errorResponse(500, "Failed to scan DynamoDB")
    ELSE successResponse(200, ListVPCResponseJSON(DecodeAll(items), Len(items)))

\* The response of listVPCs, get/main.go:104-122, to a Scan that failed, or
\* that returned items.
ListVPCsResponse(ok, items) ==
    IF ~ok THEN errorResponse(500, "Failed to scan DynamoDB")
    ELSE successResponse(200, ListVPCResponseJSON(DecodeAll(items), Len(DecodeAll(items))))

\* listVPCs, get/main.go:99-123: one Scan, which fails, or succeeds and
\* returns the items in one of the orders the table may choose.
listVPCs ==
    \E ok \in BOOLEAN :
        \E items \in (IF ok THEN ScanResults(table) ELSE {<< >>}) :
            /\ getCalls' = << [op |-> "Scan", ok |-> ok, items |-> items] >>
            /\ getResponse' = ListVPCsResponse(ok, items)

\* handler, get/main.go:60-68.
getHandler(params) ==
    /\ getRequest' = params
    /\ IF PathParameter(params, "vpc_id") # ""
       THEN getVPC(PathParameter(params, "vpc_id"))
       ELSE listVPCs
    /\ UNCHANGED << pc, request, vpcRequest, apiKey, vpcId, availableAZs, results,
                    createdAt, responses, calls, vpcs, subnets, table, now,
                    nCreates, created >>

\* ----------------------------------------------------------- specifications

\* The whole service: create requests, one at a time, and get and list
\* requests at any moment, a create in flight or not.
Next ==
    \/ \E r \in Requests : createHandler(r.Body, r.Headers)
    \/ createVPC
    \/ DescribeAvailabilityZones(FewZoneLists)
    \/ CreateSubnet
    \/ storeVPCMetadata
    \/ \E params \in FewPathParameters : getHandler(params)

\* The table holds nothing at the start, or the later item of vpc-a.
Init == InitWith({{}, {x \in PreItems : x.vpc_id = S("vpc-a") /\ x.created_at = S(FormatRFC3339Nano(15))}})

Spec == Init /\ [][Next]_vars

\* Get and list requests of a table that held any of the items of PreItems
\* at the start, and at most one create request.
InitRead == InitWith(SUBSET PreItems)

ReceiveOne == nCreates = 0 /\ \E r \in Requests : createHandler(r.Body, r.Headers)

NextRead ==
    \/ ReceiveOne
    \/ createVPC
    \/ DescribeAvailabilityZones(FewZoneLists)
    \/ CreateSubnet
    \/ storeVPCMetadata
    \/ \E params \in PathParameters : getHandler(params)

SpecRead == InitRead /\ [][NextRead]_vars

\* One create request, of any body.
InitCreate == InitWith({{}, PreItems})

ReceiveCreate == nCreates = 0 /\ \E r \in CreateRequests : createHandler(r.Body, r.Headers)

NextCreate ==
    \/ ReceiveCreate
    \/ createVPC
    \/ DescribeAvailabilityZones(ZoneLists)
    \/ CreateSubnet
    \/ storeVPCMetadata

SpecCreate == InitCreate /\ [][NextCreate]_vars

\* One create request, with any headers.
ReceiveIdentity == nCreates = 0 /\ \E r \in IdentityRequests : createHandler(r.Body, r.Headers)

NextIdentity ==
    \/ ReceiveIdentity
    \/ createVPC
    \/ DescribeAvailabilityZones(FewZoneLists)
    \/ CreateSubnet
    \/ storeVPCMetadata

SpecIdentity == InitCreate /\ [][NextIdentity]_vars

\* ------------------------------------------------------------------ claims

\* The response of the create invocation, if it has returned one.
Response == IF responses = << >> THEN NoResponse ELSE responses[Len(responses)]

\* The "subnets" array of the body of the create request, as it was sent.
SentSubnets == Field(request.Body.obj, "subnets", << >>)

\* A body that parses, with an empty (or no) cidr_block, an empty vpc_name,
\* no subnets, or a subnet with an empty cidr_block or name.
InvalidBody(body) ==
    /\ body.wellFormed
    /\ \/ Field(body.obj, "cidr_block", "") = ""
       \/ Field(body.obj, "vpc_name", "") = ""
       \/ Len(Field(body.obj, "subnets", << >>)) = 0
       \/ \E k \in 1 .. Len(Field(body.obj, "subnets", << >>)) :
            \/ Field(body.obj.subnets[k], "cidr_block", "") = ""
            \/ Field(body.obj.subnets[k], "name", "") = ""

\* The create request in hand passed validation: the handler went on to the
\* provider.
Validated == nCreates > 0 /\ request.Body.wellFormed /\ ~InvalidBody(request.Body)

\* The create invocation is over: it returned, or it died.
Over == nCreates > 0 /\ pc \in {"idle", "panic"}

\* C1: a create request whose body parses but has an empty cidr_block, an
\* empty vpc_name, no subnets, or a subnet with an empty cidr_block or name
\* is answered 400, and neither the provider nor the table is called:
\* nothing is allocated and the table is as it was.
C1_InvalidRejected ==
    (nCreates > 0 /\ InvalidBody(request.Body)) =>
        /\ responses = << errorResponse(400, "Validation failed") >>
        /\ pc = "idle"
        /\ calls = << >>
        /\ vpcs = {} /\ subnets = {}
        /\ table \in {{}, PreItems}

\* C1's case: a request rejected for its second subnet alone.
C1_Witness ==
    /\ nCreates > 0
    /\ request.Body.wellFormed
    /\ Len(SentSubnets) = 2
    /\ Field(request.Body.obj, "cidr_block", "") # ""
    /\ Field(request.Body.obj, "vpc_name", "") # ""
    /\ Field(SentSubnets[1], "cidr_block", "") # "" /\ Field(SentSubnets[1], "name", "") # ""
    /\ Field(SentSubnets[2], "name", "") = ""
    /\ Response.StatusCode = 400

\* C2: when the handler has returned and every call it made succeeded, the
\* response is 201 and has as many subnet entries as the request, the i-th
\* with the cidr_block and the name of the i-th subnet of the request.
C2_SubnetsEchoed ==
    (Validated /\ pc = "idle" /\ \A k \in 1 .. Len(calls) : calls[k].ok) =>
        /\ Response.StatusCode = 201
        /\ Len(Response.Body.subnets) = Len(SentSubnets)
        /\ \A k \in 1 .. Len(SentSubnets) :
            /\ Response.Body.subnets[k].cidr_block = SentSubnets[k].cidr_block
            /\ Response.Body.subnets[k].name = SentSubnets[k].name

\* C2's case: a 201 to a request of two different subnets.
C2_Witness ==
    /\ Validated
    /\ Response.StatusCode = 201
    /\ Len(SentSubnets) = 2
    /\ SentSubnets[1].name # SentSubnets[2].name
    /\ SentSubnets[1].cidr_block # SentSubnets[2].cidr_block

\* The CreateSubnet call made for the subnet at index i, if any.
SubnetCalls(i) == {k \in 1 .. Len(calls) : calls[k].op = "CreateSubnet" /\ calls[k].index = i}

\* The subnets the loop of createSubnets has dealt with: those before the one
\* it stands at, and that one too when the invocation ended in the loop.
SubnetsReached ==
    {i \in 0 .. Len(SentSubnets) - 1 :
        \/ SubnetCalls(i) # {}
        \/ pc = "panic" /\ i = Len(results)}

\* C3: every subnet createSubnets deals with is given a zone: the one it
\* asks for, else the zone at its index in the list of available zones, else
\* (the index past the list) the first available zone; that zone goes to
\* CreateSubnet and into the subnet's result.
C3_ZoneAssigned ==
    Validated =>
        /\ \A i \in SubnetsReached :
            /\ SubnetCalls(i) # {}
            /\ \A k \in SubnetCalls(i) :
                LET hint == Field(SentSubnets[i + 1], "availability_zone", "")
                IN  IF hint # "" THEN calls[k].AvailabilityZone = hint
                    ELSE IF i < Len(availableAZs)
                    THEN calls[k].AvailabilityZone = availableAZs[i + 1]
                    ELSE /\ Len(availableAZs) > 0
                         /\ calls[k].AvailabilityZone = availableAZs[1]
        /\ \A j \in 1 .. Len(results) :
            \E k \in SubnetCalls(j - 1) :
                calls[k].AvailabilityZone = results[j].AvailabilityZone

\* The calls of a create request of n subnets, in their order.
ExpectedOps(n) ==
    << "CreateVpc", "DescribeAvailabilityZones" >>
    \o [k \in 1 .. n |-> "CreateSubnet"]
    \o << "PutItem" >>

\* C6: a create request that passed validation ends in exactly one response,
\* 201 or 500, whatever the provider and the table answer; the calls are
\* made in the order CreateVpc, DescribeAvailabilityZones, CreateSubnet for
\* each subnet in turn, PutItem, none twice; a call that fails is the last,
\* and is answered 500; 201 is the answer when all were made and succeeded.
C6_OneResponse ==
    Validated =>
        /\ Len(responses) <= 1
        /\ Len(calls) <= Len(ExpectedOps(Len(SentSubnets)))
        /\ \A k \in 1 .. Len(calls) :
            /\ calls[k].op = ExpectedOps(Len(SentSubnets))[k]
            /\ calls[k].op = "CreateSubnet" => calls[k].index = k - 3
            /\ ~calls[k].ok => k = Len(calls) /\ Response.StatusCode = 500
        /\ Over =>
            /\ Len(responses) = 1
            /\ Response.StatusCode \in {201, 500}
            /\ Response.StatusCode = 201 <=>
                /\ Len(calls) = Len(ExpectedOps(Len(SentSubnets)))
                /\ \A k \in 1 .. Len(calls) : calls[k].ok

\* The value of the x-api-key header of the create request in hand, under
\* that name in lower case; empty when there is none.
SentKey == MapGet(request.Headers, "x-api-key")

\* The creator identifier of the invocation is e: in the handler, in the
\* item it puts, and in its 201 response.
CreatorIs(e) ==
    /\ apiKey = e
    /\ \A k \in 1 .. Len(calls) : calls[k].op = "PutItem" => calls[k].item.created_by = S(e)
    /\ Response.StatusCode = 201 => Response.Body.created_by = e

\* C4, as claimed: the creator identifier of a validated request is
\* "api-user" when there is no x-api-key header or an empty one, else the
\* header value when it has at most 20 characters, else its first 20
\* characters; it never has more than 20 characters.
C4_CutByCharacters ==
    Validated =>
        /\ CreatorIs(IF SentKey = << >> THEN ApiUser
                     ELSE IF CharCount(SentKey) <= 20 THEN SentKey
                     ELSE FirstChars(SentKey, 20))
        /\ CharCount(apiKey) <= 20

\* What the handler does instead: the same with the length counted in bytes:
\* the header value when it has at most 20 bytes, else its first 20 bytes,
\* which may end inside a character.
CutByBytes ==
    Validated =>
        /\ CreatorIs(IF SentKey = << >> THEN ApiUser
                     ELSE IF Len(SentKey) <= 20 THEN SentKey
                     ELSE SubSeq(SentKey, 1, 20))
        /\ Len(apiKey) <= 20
        /\ CharCount(apiKey) <= 20

\* A 201 to a request whose key has at most 20 characters and more than 20
\* bytes, and was cut.
CutInsideCharacter ==
    /\ Validated
    /\ Response.StatusCode = 201
    /\ CharCount(SentKey) <= 20
    /\ Len(SentKey) > 20
    /\ Len(Response.Body.created_by) = 20

\* C5: the caller's key is read whatever the casing of the header's name: a
\* validated request that carries it under a name equal to x-api-key but for
\* the case of its letters gets the creator identifier it would get with
\* the name in lower case.
C5_AnyCasing ==
    Validated =>
        \A name \in DOMAIN request.Headers :
            ToLower(name) = "x-api-key" =>
                apiKey = CallerIdentity(OneEntry("x-api-key", request.Headers[name]))

\* The calls the create handler may make.
CreateOps == {"CreateVpc", "DescribeAvailabilityZones", "CreateSubnet", "PutItem"}

\* C7, in a state: the handler calls nothing that deletes; when it has
\* answered 500 after CreateVpc succeeded, the network and the subnets it
\* created are allocated and the table has no item of the network; and the
\* table has an item of a network the provider allocated only if the create
\* request of that network was answered 201.
C7_Orphans ==
    /\ \A k \in 1 .. Len(calls) : calls[k].op \in CreateOps
    /\ (Validated /\ Response.StatusCode = 500 /\ calls[1].ok) =>
        /\ \E v \in vpcs : v.VpcId = vpcId
        /\ \A k \in 1 .. Len(calls) :
            (calls[k].op = "CreateSubnet" /\ calls[k].ok) =>
                \E sn \in subnets : sn.SubnetId = calls[k].SubnetId /\ sn.VpcId = vpcId
        /\ Partition(table, vpcId) = {}
    /\ \A v \in vpcs :
        Partition(table, v.VpcId) # {} => \E c \in created : c.body.vpc_id = v.VpcId

\* C7: there is no compensation: C7_Orphans holds in every state, and what
\* the provider has allocated stays allocated.
C7_NoCompensation ==
    /\ []C7_Orphans
    /\ [][vpcs \subseteq vpcs' /\ subnets \subseteq subnets']_vars

\* C7's case: 500 for the second subnet, the network and the first subnet
\* allocated, and 500 for the table's refusal, all allocated.
C7_Witness ==
    /\ Validated
    /\ Response.StatusCode = 500
    /\ \E k \in 1 .. Len(calls) : calls[k].op = "CreateSubnet" /\ calls[k].ok
    /\ \E k \in 1 .. Len(calls) : calls[k].op = "CreateSubnet" /\ ~calls[k].ok
    /\ \E v \in vpcs : v.VpcId = vpcId
    /\ nCreates = 2

\* The vpc_id path parameter of the get request just answered.
AskedId == PathParameter(getRequest, "vpc_id")

\* A get or list request was just answered.
Answered == getResponse # NoResponse

\* The instant a created_at of the model was formatted from.
Instant(at) == CHOOSE t \in 0 .. StartTime + MaxTicks + 1 : FormatRFC3339Nano(t) = at

\* The item of a partition written last.
MostRecent(part) ==
    CHOOSE x \in part : \A y \in part : Instant(y.created_at.S) <= Instant(x.created_at.S)

\* The item of a partition whose created_at is greatest in byte order.
Greatest(part) ==
    CHOOSE x \in part : \A y \in part : y = x \/ BytesLess(y.created_at.S, x.created_at.S)

Scanned == getCalls[1].items

\* C9: a list request whose Scan succeeds is answered 200 with the scanned
\* items that decode, in the order of the scan, those that do not decode
\* left out; count is the length of vpcs, the number of scanned items less
\* the number of those that do not decode.
C9_ListCount ==
    (Answered /\ getCalls[1].op = "Scan" /\ getCalls[1].ok) =>
        /\ getResponse.StatusCode = 200
        /\ getResponse.Body.count = Len(getResponse.Body.vpcs)
        /\ getResponse.Body.count =
             Len(Scanned) - Cardinality({k \in 1 .. Len(Scanned) : ~ItemDecodes(Scanned[k])})
        /\ LET kept == SelectSeq(Scanned, ItemDecodes)
           IN  getResponse.Body.vpcs =
                 [k \in 1 .. Len(kept) |-> VPCResourceJSON(VPCResourceOf(kept[k]))]

\* C9's case: a list of three items or more, one that does not decode
\* between two that do.
C9_Witness ==
    /\ Answered
    /\ getCalls[1].op = "Scan"
    /\ getCalls[1].ok
    /\ Len(Scanned) >= 3
    /\ \E k \in 2 .. Len(Scanned) - 1 :
        ~ItemDecodes(Scanned[k]) /\ ItemDecodes(Scanned[k - 1]) /\ ItemDecodes(Scanned[k + 1])
    /\ getResponse.Body.count = Len(Scanned) - 1

\* The items of the table with the key of the 201 response of c.
ItemsOf(c) ==
    {x \in table : x.vpc_id = S(c.body.vpc_id) /\ x.created_at = S(c.body.created_at)}

\* The subnets attribute of an item holding the subnet entries of a response.
SubnetsAttribute(entries) ==
    L([k \in 1 .. Len(entries) |->
        M([subnet_id         |-> S(entries[k].subnet_id),
           cidr_block        |-> S(entries[k].cidr_block),
           availability_zone |-> S(entries[k].availability_zone),
           name              |-> S(entries[k].name)])])

\* Every create answered 201 has one item in the table under its vpc_id and
\* created_at, with the created_by, vpc_cidr and subnets of the response, the
\* vpc_name of the request, and the status "created".
C10_Stored ==
    \A c \in created :
        /\ Cardinality(ItemsOf(c)) = 1
        /\ \A x \in ItemsOf(c) :
            /\ x.created_by = S(c.body.created_by)
            /\ x.vpc_cidr = S(c.body.vpc_cidr)
            /\ x.vpc_name = S(c.req.VPCName)
            /\ x.status = S("created")
            /\ x.subnets = SubnetsAttribute(c.body.subnets)

\* The item is written after the network and all its subnets were created:
\* a network with an item has all the subnets of its request allocated, and
\* while the handler is between CreateVpc and PutItem the table has no item
\* of its network.
C10_AfterProvider ==
    /\ \A c \in created :
        /\ \E v \in vpcs : v.VpcId = c.body.vpc_id
        /\ Len(c.body.subnets) = Len(c.req.Subnets)
        /\ \A k \in 1 .. Len(c.body.subnets) :
            \E sn \in subnets :
                sn.SubnetId = c.body.subnets[k].subnet_id /\ sn.VpcId = c.body.vpc_id
    /\ pc \in {"createSubnets", "CreateSubnet", "storeVPCMetadata", "panic"} =>
        Partition(table, vpcId) = {}

\* The 200 response to a get carries what the create c stored.
GivesBack(c) ==
    /\ getResponse.StatusCode = 200
    /\ getResponse.Body.vpc_id = c.body.vpc_id
    /\ getResponse.Body.created_at = c.body.created_at
    /\ getResponse.Body.created_by = c.body.created_by
    /\ getResponse.Body.vpc_cidr = c.body.vpc_cidr
    /\ getResponse.Body.subnets = c.body.subnets
    /\ getResponse.Body.vpc_name = c.req.VPCName
    /\ getResponse.Body.status = "created"

\* The table has no item of the network of c with a greater created_at.
NoNewer(c) ==
    \A x \in Partition(table, c.body.vpc_id) :
        ~BytesLess(c.body.created_at, x.created_at.S)

================================================================================
